---- MODULE Spec2Model ----
(***************************************************************************)
(* Model of jetconf/rest_server.py: the route table (HandlerList), the     *)
(* per-connection HTTP/2 session (H2Protocol) and the route registration   *)
(* of RestServer.                                                          *)
(***************************************************************************)
EXTENDS Integers, Sequences, FiniteSets, TLC

VARIABLES
    handlers,             \* HandlerList.handlers: sequence of <<condition, handler>>
    default_handler,      \* HandlerList.default_handler
    h2_handlers,          \* the module global: "unset" or "http_handlers"
    running,              \* RestServer.run() has entered loop.run_forever()
    resolved,             \* the last get_handler call made on the table directly
    entry_log,            \* the <<condition, handler>> pairs register_handler was called with
    default_log,          \* the handlers register_default_handler was called with
    transport,            \* per connection: "none", "open" or "closed"
    pc,                   \* per connection: "idle", or "loop" inside data_received
    reqs_waiting_upload,  \* per connection: stream id -> stored headers
    h2_streams,           \* per connection, per stream: what the framing layer delivered
    settings_seen,        \* per connection: remote-settings-changed events delivered
    calls,                \* per connection, per stream: the handler invocations made
    lookups,              \* per connection, per stream: the get_handler calls made for it
    sent,                 \* per connection: frames handed to the H2Connection
    flushed               \* per connection: how many of them were written to the transport

vars == <<handlers, default_handler, h2_handlers, running, resolved, entry_log,
          default_log, transport, pc,
          reqs_waiting_upload, h2_streams, settings_seen, calls, lookups, sent,
          flushed>>

tableVars == <<handlers, default_handler, h2_handlers, running, resolved, entry_log,
               default_log>>
connVars  == <<transport, pc, reqs_waiting_upload, h2_streams, settings_seen,
               calls, lookups, sent, flushed>>

----------------------------------------------------------------------------
(* Bounds and input sets *)

MaxHandlers == 2      \* register_handler calls made on a table
MaxDefaults == 2      \* register_default_handler calls made on a table
MaxData     == 2      \* data events delivered on one stream
MaxSettings == 1      \* remote-settings-changed events on one connection

None == "None"

Conns   == {"A", "B"}
Streams == {1, 3}
Methods == {"GET", "DELETE", "PUT", "POST", "PATCH"}

\* Paths are strings, modelled as sequences of characters so that splitting at
\* '?' and prefix matching are computed.
API_ROOT      == <<"r">>
API_ROOT_data == <<"r", "d">>
API_ROOT_ops  == <<"r", "o">>

\* the request paths delivered: the root with a query, the data prefix without
\* one, two paths under it that differ after the '?', and a path under the
\* operations prefix
Paths == { <<"r", "?", "d">>, <<"r", "d">>, <<"r", "d", "?", "o">>,
           <<"r", "d", "?", "d">>, <<"r", "o">> }

\* the paths get_handler is asked about on a bare table
RoutePaths == { <<"r">>, <<"r", "d">>, <<"r", "d", "x">>, <<"r", "o">>, <<"x">> }

SERVER_NAME == "SERVER_NAME"

----------------------------------------------------------------------------
(* Route conditions: the lambdas registered in this file are of three shapes *)

RECURSIVE startswith(_, _)
startswith(p, prefix) ==
    IF prefix = <<>> THEN TRUE
    ELSE IF p = <<>> THEN FALSE
    ELSE Head(p) = Head(prefix) /\ startswith(Tail(p), Tail(prefix))

CondExact(m, p)  == [kind |-> "exact",  m |-> m, p |-> p]
CondPrefix(m, p) == [kind |-> "prefix", m |-> m, p |-> p]
CondMethod(m)    == [kind |-> "method", m |-> m, p |-> <<>>]

\* h[0](method, path)
CondHolds(cond, method, path) ==
    CASE cond.kind = "exact"  -> (method = cond.m) /\ (path = cond.p)
      [] cond.kind = "prefix" -> (method = cond.m) /\ startswith(path, cond.p)
      [] cond.kind = "method" -> method = cond.m

\* The conditions and handlers register_handler is called with on a bare table.
Conds == { CondExact("GET", API_ROOT), CondPrefix("GET", API_ROOT),
           CondPrefix("POST", API_ROOT_data), CondMethod("GET") }
Handlers == {"H1", "H2"}
DefaultHandlers == {"H1", "H0"}

----------------------------------------------------------------------------
(* HandlerList *)

\* the for loop of get_handler from entry i on, and the final return
RECURSIVE get_handler_from(_, _, _)
get_handler_from(i, method, path) ==
    IF i > Len(handlers) THEN default_handler
    ELSE IF CondHolds(handlers[i][1], method, path) THEN handlers[i][2]
    ELSE get_handler_from(i + 1, method, path)

\* the entries whose condition is true for (method, path)
Matching(method, path) ==
    { i \in 1..Len(handlers) : CondHolds(handlers[i][1], method, path) }

\* mutant: a later matching entry overrides an earlier one
get_handler_last_match(method, path) ==
    LET M == Matching(method, path)
    IN IF M = {} THEN default_handler
       ELSE handlers[CHOOSE i \in M : \A j \in M : j <= i][2]

\* mutant: the fallback is forgotten when nothing matches
get_handler_no_default(method, path) ==
    LET M == Matching(method, path)
    IN IF M = {} THEN None
       ELSE handlers[CHOOSE i \in M : \A j \in M : i <= j][2]

get_handler(method, path) == get_handler_from(1, method, path)

\* mutant: the new entry is put in front of the list
register_handler_prepend(condition, handler) ==
    /\ ~running
    /\ Len(handlers) < MaxHandlers
    /\ handlers' = << <<condition, handler>> >> \o handlers
    /\ entry_log' = Append(entry_log, <<condition, handler>>)
    /\ resolved' = <<>>
    /\ UNCHANGED <<default_handler, h2_handlers, running, default_log>>
    /\ UNCHANGED connVars

register_handler(condition, handler) ==
    /\ ~running
    /\ Len(handlers) < MaxHandlers
    /\ handlers' = Append(handlers, <<condition, handler>>)
    /\ entry_log' = Append(entry_log, <<condition, handler>>)
    /\ resolved' = <<>>
    /\ UNCHANGED <<default_handler, h2_handlers, running, default_log>>
    /\ UNCHANGED connVars

\* mutant: only the first default registered is kept
register_default_handler_keep_first(handler) ==
    /\ ~running
    /\ Len(default_log) < MaxDefaults
    /\ default_handler' = IF default_handler = None THEN handler ELSE default_handler
    /\ default_log' = Append(default_log, handler)
    /\ resolved' = <<>>
    /\ UNCHANGED <<handlers, h2_handlers, running, entry_log>>
    /\ UNCHANGED connVars

register_default_handler(handler) ==
    /\ ~running
    /\ Len(default_log) < MaxDefaults
    /\ default_handler' = handler
    /\ default_log' = Append(default_log, handler)
    /\ resolved' = <<>>
    /\ UNCHANGED <<handlers, h2_handlers, running, entry_log>>
    /\ UNCHANGED connVars

\* a caller asks the table for the handler of (method, path)
Resolve(method, path) ==
    /\ resolved' = <<[method |-> method, path |-> path,
                      handler |-> get_handler(method, path)]>>
    /\ UNCHANGED <<handlers, default_handler, h2_handlers, running, entry_log, default_log>>
    /\ UNCHANGED connVars

----------------------------------------------------------------------------
(* RestServer: the shipped routes and the start of the event loop *)

ApiRoutes ==
    << <<CondExact("GET", API_ROOT),          "api_root_handler">>,
       <<CondPrefix("GET", API_ROOT_data),    "api_get">>,
       <<CondPrefix("POST", API_ROOT_data),   "api_post">>,
       <<CondPrefix("PUT", API_ROOT_data),    "api_put">>,
       <<CondPrefix("DELETE", API_ROOT_data), "api_delete">>,
       <<CondPrefix("POST", API_ROOT_ops),    "api_op">> >>

StaticRoutes == << <<CondMethod("GET"), "get_file">> >>

Registered(routes) ==
    \E i \in 1..Len(handlers) : handlers[i] = routes[1]

\* each registration method is called at most once before run(), the API
\* routes first
register_api_handlers ==
    /\ ~running
    /\ ~Registered(ApiRoutes)
    /\ handlers' = handlers \o ApiRoutes
    /\ entry_log' = entry_log \o ApiRoutes
    /\ h2_handlers' = "http_handlers"
    /\ resolved' = <<>>
    /\ UNCHANGED <<default_handler, running, default_log>>
    /\ UNCHANGED connVars

\* mutant: the static routes are registered without a default handler
register_static_handlers_no_default ==
    /\ ~running
    /\ Registered(ApiRoutes)
    /\ ~Registered(StaticRoutes)
    /\ handlers' = handlers \o StaticRoutes
    /\ entry_log' = entry_log \o StaticRoutes
    /\ h2_handlers' = "http_handlers"
    /\ resolved' = <<>>
    /\ UNCHANGED <<default_handler, default_log, running>>
    /\ UNCHANGED connVars

register_static_handlers ==
    /\ ~running
    /\ Registered(ApiRoutes)
    /\ ~Registered(StaticRoutes)
    /\ handlers' = handlers \o StaticRoutes
    /\ entry_log' = entry_log \o StaticRoutes
    /\ default_handler' = "unknown_req_handler"
    /\ default_log' = Append(default_log, "unknown_req_handler")
    /\ h2_handlers' = "http_handlers"
    /\ resolved' = <<>>
    /\ UNCHANGED running
    /\ UNCHANGED connVars

\* run(): the loop serves connections once the global table is set
run ==
    /\ ~running
    /\ h2_handlers = "http_handlers"
    /\ running' = TRUE
    /\ UNCHANGED <<handlers, default_handler, h2_handlers, resolved, entry_log, default_log>>
    /\ UNCHANGED connVars

----------------------------------------------------------------------------
(* H2Protocol *)

NoHeaders == [k \in {":method", ":path"} |-> IF k = ":method" THEN None ELSE <<>>]

\* OrderedDict(event.headers), of which only the pseudo-headers are read
Headers(method, path) ==
    [k \in {":method", ":path"} |-> IF k = ":method" THEN method ELSE path]

IdleStream == [st |-> "idle", headers |-> NoHeaders, ndata |-> 0]

\* the payload of the k-th data event of stream s on connection c: one byte
\* that no other event carries
Frag(c, s, k) == << <<c, s, k>> >>

\* mutant: the path is taken whole, query string included
split_none(p, sep) == << p >>

\* str.split(sep): the parts between the occurrences of sep
RECURSIVE split(_, _)
split(p, sep) ==
    IF \A i \in 1..Len(p) : p[i] # sep THEN << p >>
    ELSE LET i == CHOOSE j \in 1..Len(p) :
                     p[j] = sep /\ \A k \in 1..(j - 1) : p[k] # sep
         IN << SubSeq(p, 1, i - 1) >> \o split(SubSeq(p, i + 1, Len(p)), sep)

\* Text is a sequence of characters, each named by a string; the characters
\* outside ASCII that occur are these
NonAscii == {"e-acute"}

\* the UTF-8 bytes of one character: itself for ASCII, two bytes for the others
Utf8(ch) == IF ch \in NonAscii THEN << "0xC3", "0xA9" >> ELSE << ch >>

\* str.encode(): the UTF-8 bytes of the characters, in order
RECURSIVE encode(_)
encode(str) ==
    IF str = <<>> THEN <<>> ELSE Utf8(Head(str)) \o encode(Tail(str))

Str400        == << "4", "0", "0" >>
StrBadRequest == << "B", "a", "d", " ", "R", "e", "q", "u", "e", "s", "t" >>

Frame(type, stream, hdrs, data, end_stream) ==
    [type |-> type, stream |-> stream, headers |-> hdrs, data |-> data,
     end_stream |-> end_stream]

\* mutant: the body is left out whatever status_in_body says
send_empty_no_body(stream_id, status_code, status_msg, status_in_body) ==
    LET response_bytes == encode(<<>>)
        response_headers == << <<":status", status_code>>,
                               <<"content-type", "text/plain">>,
                               <<"content-length", Len(response_bytes)>>,
                               <<"server", SERVER_NAME>> >>
    IN << Frame("HEADERS", stream_id, response_headers, <<>>, FALSE),
          Frame("DATA", stream_id, <<>>, response_bytes, TRUE) >>

\* mutant: content-length counts the characters of the text, not its bytes
send_empty_char_length(stream_id, status_code, status_msg, status_in_body) ==
    LET response == IF status_in_body
                    THEN status_code \o << " " >> \o status_msg \o << "\n" >> ELSE <<>>
        response_bytes == encode(response)
        response_headers == << <<":status", status_code>>,
                               <<"content-type", "text/plain">>,
                               <<"content-length", Len(response)>>,
                               <<"server", SERVER_NAME>> >>
    IN << Frame("HEADERS", stream_id, response_headers, <<>>, FALSE),
          Frame("DATA", stream_id, <<>>, response_bytes, TRUE) >>

\* the frames send_empty hands to the connection, in order
send_empty(stream_id, status_code, status_msg, status_in_body) ==
    LET response == IF status_in_body
                    THEN status_code \o << " " >> \o status_msg \o << "\n" >> ELSE <<>>
        response_bytes == encode(response)
        response_headers == << <<":status", status_code>>,
                               <<"content-type", "text/plain">>,
                               <<"content-length", Len(response_bytes)>>,
                               <<"server", SERVER_NAME>> >>
    IN << Frame("HEADERS", stream_id, response_headers, <<>>, FALSE),
          Frame("DATA", stream_id, <<>>, response_bytes, TRUE) >>

Invoke(c, stream_id, h, args) ==
    calls' = [calls EXCEPT ![c][stream_id] = Append(@, [handler |-> h, args |-> args])]

\* h2_handlers.get_handler(method, url_path) is called for stream_id
Lookup(c, stream_id, method, url_path) ==
    lookups' = [lookups EXCEPT ![c][stream_id] = Append(@, <<method, url_path>>)]

Emit(c, frames) ==
    sent' = [sent EXCEPT ![c] = @ \o frames]

connection_made(c) ==
    /\ running
    /\ transport[c] = "none"
    /\ transport' = [transport EXCEPT ![c] = "open"]
    /\ Emit(c, << Frame("SETTINGS", 0, <<>>, <<>>, FALSE) >>)
    /\ flushed' = [flushed EXCEPT ![c] = Len(sent'[c])]
    /\ UNCHANGED <<pc, reqs_waiting_upload, h2_streams, settings_seen, calls, lookups>>
    /\ UNCHANGED tableVars

\* mutant: the requests still waiting for their body are dispatched, with an
\* empty body, when the connection goes away
connection_lost_flush(c) ==
    /\ transport[c] = "open"
    /\ pc[c] = "idle"
    /\ transport' = [transport EXCEPT ![c] = "closed"]
    /\ calls' = [calls EXCEPT ![c] =
                    [s \in Streams |->
                        IF s \in DOMAIN reqs_waiting_upload[c]
                        THEN Append(@[s], [handler |-> "flushed",
                                           args |-> <<c, s, reqs_waiting_upload[c][s], <<>> >>])
                        ELSE @[s]]]
    /\ reqs_waiting_upload' = [reqs_waiting_upload EXCEPT ![c] = [s \in {} |-> NoHeaders]]
    /\ UNCHANGED <<pc, h2_streams, settings_seen, lookups, sent, flushed>>
    /\ UNCHANGED tableVars

\* asyncio.Protocol.connection_lost is not overridden: the session is dropped
connection_lost(c) ==
    /\ transport[c] = "open"
    /\ pc[c] = "idle"
    /\ transport' = [transport EXCEPT ![c] = "closed"]
    /\ UNCHANGED <<pc, reqs_waiting_upload, h2_streams, settings_seen, calls, lookups, sent,
                   flushed>>
    /\ UNCHANGED tableVars

handle_get_delete(c, headers, stream_id) ==
    LET url_split == split(headers[":path"], "?")
        url_path == url_split[1]
        h == get_handler(headers[":method"], url_path)
    IN /\ Lookup(c, stream_id, headers[":method"], url_path)
       /\ IF h # None
          THEN Invoke(c, stream_id, h, <<c, stream_id, headers>>) /\ UNCHANGED sent
          ELSE Emit(c, send_empty(stream_id, Str400, StrBadRequest, TRUE))
               /\ UNCHANGED calls

\* mutant: the stored headers are read but not removed
http_handle_upload_keep(c, data, stream_id) ==
    IF stream_id \notin DOMAIN reqs_waiting_upload[c]
    THEN UNCHANGED <<reqs_waiting_upload, calls, lookups, sent>>
    ELSE LET headers == reqs_waiting_upload[c][stream_id]
             url_split == split(headers[":path"], "?")
             url_path == url_split[1]
             h == get_handler(headers[":method"], url_path)
         IN /\ UNCHANGED reqs_waiting_upload
            /\ Lookup(c, stream_id, headers[":method"], url_path)
            /\ IF h # None
               THEN Invoke(c, stream_id, h, <<c, stream_id, headers, data>>)
                    /\ UNCHANGED sent
               ELSE Emit(c, send_empty(stream_id, Str400, StrBadRequest, TRUE))
                    /\ UNCHANGED calls

\* mutant: a body nobody waits for is answered with an error response
http_handle_upload_reject_orphan(c, data, stream_id) ==
    IF stream_id \notin DOMAIN reqs_waiting_upload[c]
    THEN /\ Emit(c, send_empty(stream_id, Str400, StrBadRequest, TRUE))
         /\ UNCHANGED <<reqs_waiting_upload, calls, lookups>>
    ELSE LET headers == reqs_waiting_upload[c][stream_id]
             url_split == split(headers[":path"], "?")
             url_path == url_split[1]
             h == get_handler(headers[":method"], url_path)
         IN /\ reqs_waiting_upload' =
                   [reqs_waiting_upload EXCEPT ![c] =
                       [t \in (DOMAIN @) \ {stream_id} |-> @[t]]]
            /\ Lookup(c, stream_id, headers[":method"], url_path)
            /\ IF h # None
               THEN Invoke(c, stream_id, h, <<c, stream_id, headers, data>>)
                    /\ UNCHANGED sent
               ELSE Emit(c, send_empty(stream_id, Str400, StrBadRequest, TRUE))
                    /\ UNCHANGED calls

\* mutant: the upload empties the whole map of its session
http_handle_upload_clear(c, data, stream_id) ==
    IF stream_id \notin DOMAIN reqs_waiting_upload[c]
    THEN UNCHANGED <<reqs_waiting_upload, calls, lookups, sent>>
    ELSE LET headers == reqs_waiting_upload[c][stream_id]
             url_split == split(headers[":path"], "?")
             url_path == url_split[1]
             h == get_handler(headers[":method"], url_path)
         IN /\ reqs_waiting_upload' = [reqs_waiting_upload EXCEPT ![c] = <<>>]
            /\ Lookup(c, stream_id, headers[":method"], url_path)
            /\ IF h # None
               THEN Invoke(c, stream_id, h, <<c, stream_id, headers, data>>)
                    /\ UNCHANGED sent
               ELSE Emit(c, send_empty(stream_id, Str400, StrBadRequest, TRUE))
                    /\ UNCHANGED calls

\* mutant: one map shared by all sessions (a class attribute)
http_handle_upload_shared(c, data, stream_id) ==
    IF \A d \in Conns : stream_id \notin DOMAIN reqs_waiting_upload[d]
    THEN UNCHANGED <<reqs_waiting_upload, calls, lookups, sent>>
    ELSE LET holder == IF stream_id \in DOMAIN reqs_waiting_upload[c] THEN c
                       ELSE CHOOSE d \in Conns : stream_id \in DOMAIN reqs_waiting_upload[d]
             headers == reqs_waiting_upload[holder][stream_id]
             url_split == split(headers[":path"], "?")
             url_path == url_split[1]
             h == get_handler(headers[":method"], url_path)
         IN /\ reqs_waiting_upload' =
                   [d \in Conns |->
                       [t \in (DOMAIN reqs_waiting_upload[d]) \ {stream_id} |->
                           reqs_waiting_upload[d][t]]]
            /\ Lookup(c, stream_id, headers[":method"], url_path)
            /\ IF h # None
               THEN Invoke(c, stream_id, h, <<c, stream_id, headers, data>>)
                    /\ UNCHANGED sent
               ELSE Emit(c, send_empty(stream_id, Str400, StrBadRequest, TRUE))
                    /\ UNCHANGED calls

http_handle_upload(c, data, stream_id) ==
    IF stream_id \notin DOMAIN reqs_waiting_upload[c]
    THEN UNCHANGED <<reqs_waiting_upload, calls, lookups, sent>>
    ELSE LET headers == reqs_waiting_upload[c][stream_id]
             url_split == split(headers[":path"], "?")
             url_path == url_split[1]
             h == get_handler(headers[":method"], url_path)
         IN /\ reqs_waiting_upload' =
                   [reqs_waiting_upload EXCEPT ![c] =
                       [t \in (DOMAIN @) \ {stream_id} |-> @[t]]]
            /\ Lookup(c, stream_id, headers[":method"], url_path)
            /\ IF h # None
               THEN Invoke(c, stream_id, h, <<c, stream_id, headers, data>>)
                    /\ UNCHANGED sent
               ELSE Emit(c, send_empty(stream_id, Str400, StrBadRequest, TRUE))
                    /\ UNCHANGED calls

\* the arguments send_empty is applied to
StatusCodes == {Str400, << "2", "0", "4" >>}
StatusMsgs  == {StrBadRequest, << "O", "K" >>, << "C", "a", "f", "e-acute" >>}

\* self.send_empty(stream_id, status_code, status_msg, status_in_body) on a
\* stream of an open connection that has no response yet
call_send_empty(c, stream_id, status_code, status_msg, status_in_body) ==
    /\ transport[c] = "open"
    /\ SelectSeq(sent[c], LAMBDA f : f.stream = stream_id) = <<>>
    /\ Emit(c, send_empty(stream_id, status_code, status_msg, status_in_body))
    /\ UNCHANGED <<transport, pc, reqs_waiting_upload, h2_streams, settings_seen, calls,
                   lookups, flushed>>
    /\ UNCHANGED tableVars

\* data_received, lines 65-66: decode the events, write what the connection queued
data_received(c) ==
    /\ transport[c] = "open"
    /\ pc[c] = "idle"
    /\ pc' = [pc EXCEPT ![c] = "loop"]
    /\ flushed' = [flushed EXCEPT ![c] = Len(sent[c])]
    /\ UNCHANGED <<transport, reqs_waiting_upload, h2_streams, settings_seen, calls, lookups,
                   sent>>
    /\ UNCHANGED tableVars

InLoop(c) == transport[c] = "open" /\ pc[c] = "loop"

\* mutant: every method other than GET and DELETE waits for an upload
RequestReceived_else_upload(c, s, method, path) ==
    /\ transport[c] = "open" /\ pc[c] = "loop"
    /\ \A t \in Streams : t >= s => h2_streams[c][t].st = "idle"
    /\ h2_streams' = [h2_streams EXCEPT ![c][s] =
                         [st |-> "open", headers |-> Headers(method, path), ndata |-> 0]]
    /\ LET headers == Headers(method, path)
           http_method == headers[":method"]
       IN IF http_method \in {"GET", "DELETE"}
          THEN handle_get_delete(c, headers, s) /\ UNCHANGED reqs_waiting_upload
          ELSE /\ reqs_waiting_upload' =
                     [reqs_waiting_upload EXCEPT ![c] =
                         [t \in (DOMAIN @) \cup {s} |-> IF t = s THEN headers ELSE @[t]]]
               /\ UNCHANGED <<calls, lookups, sent>>
    /\ UNCHANGED <<transport, pc, settings_seen, flushed>>
    /\ UNCHANGED tableVars

\* mutant: the headers of every request are stored, GET and DELETE included
RequestReceived_store_all(c, s, method, path) ==
    /\ transport[c] = "open" /\ pc[c] = "loop"
    /\ \A t \in Streams : t >= s => h2_streams[c][t].st = "idle"
    /\ h2_streams' = [h2_streams EXCEPT ![c][s] =
                         [st |-> "open", headers |-> Headers(method, path), ndata |-> 0]]
    /\ LET headers == Headers(method, path)
           http_method == headers[":method"]
           stored == [reqs_waiting_upload EXCEPT ![c] =
                         [t \in (DOMAIN @) \cup {s} |-> IF t = s THEN headers ELSE @[t]]]
       IN IF http_method \in {"GET", "DELETE"}
          THEN handle_get_delete(c, headers, s) /\ reqs_waiting_upload' = stored
          ELSE IF http_method \in {"PUT", "POST"}
          THEN reqs_waiting_upload' = stored /\ UNCHANGED <<calls, lookups, sent>>
          ELSE UNCHANGED <<reqs_waiting_upload, calls, lookups, sent>>
    /\ UNCHANGED <<transport, pc, settings_seen, flushed>>
    /\ UNCHANGED tableVars

\* one iteration of the for loop on a RequestReceived event
RequestReceived(c, s, method, path) ==
    /\ InLoop(c)
    /\ \A t \in Streams : t >= s => h2_streams[c][t].st = "idle"
    /\ h2_streams' = [h2_streams EXCEPT ![c][s] =
                         [st |-> "open", headers |-> Headers(method, path), ndata |-> 0]]
    /\ LET headers == Headers(method, path)
           http_method == headers[":method"]
       IN IF http_method \in {"GET", "DELETE"}
          THEN handle_get_delete(c, headers, s) /\ UNCHANGED reqs_waiting_upload
          ELSE IF http_method \in {"PUT", "POST"}
          THEN /\ reqs_waiting_upload' =
                     [reqs_waiting_upload EXCEPT ![c] =
                         [t \in (DOMAIN @) \cup {s} |-> IF t = s THEN headers ELSE @[t]]]
               /\ UNCHANGED <<calls, lookups, sent>>
          ELSE UNCHANGED <<reqs_waiting_upload, calls, lookups, sent>>
    /\ UNCHANGED <<transport, pc, settings_seen, flushed>>
    /\ UNCHANGED tableVars

\* one iteration of the for loop on a DataReceived event
DataReceived(c, s) ==
    /\ InLoop(c)
    /\ h2_streams[c][s].st = "open"
    /\ h2_streams[c][s].ndata < MaxData
    /\ h2_streams' = [h2_streams EXCEPT ![c][s].ndata = @ + 1]
    /\ http_handle_upload(c, Frag(c, s, h2_streams[c][s].ndata + 1), s)
    /\ UNCHANGED <<transport, pc, settings_seen, flushed>>
    /\ UNCHANGED tableVars

\* mutant: a settings change starts the session over and forgets its pending requests
RemoteSettingsChanged_reset(c) ==
    /\ transport[c] = "open" /\ pc[c] = "loop"
    /\ settings_seen[c] < MaxSettings
    /\ settings_seen' = [settings_seen EXCEPT ![c] = @ + 1]
    /\ Emit(c, << Frame("SETTINGS_ACK", 0, <<>>, <<>>, FALSE) >>)
    /\ reqs_waiting_upload' = [reqs_waiting_upload EXCEPT ![c] = <<>>]
    /\ UNCHANGED <<transport, pc, h2_streams, calls, lookups, flushed>>
    /\ UNCHANGED tableVars

\* one iteration of the for loop on a RemoteSettingsChanged event
RemoteSettingsChanged(c) ==
    /\ InLoop(c)
    /\ settings_seen[c] < MaxSettings
    /\ settings_seen' = [settings_seen EXCEPT ![c] = @ + 1]
    /\ Emit(c, << Frame("SETTINGS_ACK", 0, <<>>, <<>>, FALSE) >>)
    /\ UNCHANGED <<transport, pc, reqs_waiting_upload, h2_streams, calls, lookups, flushed>>
    /\ UNCHANGED tableVars

\* one iteration on an event of another kind (here: the peer ended the
\* stream): no branch of the loop matches it
StreamEnded(c, s) ==
    /\ InLoop(c)
    /\ h2_streams[c][s].st = "open"
    /\ h2_streams' = [h2_streams EXCEPT ![c][s].st = "closed"]
    /\ UNCHANGED <<transport, pc, reqs_waiting_upload, settings_seen, calls, lookups, sent,
                   flushed>>
    /\ UNCHANGED tableVars

\* the for loop is over and data_received returns
data_received_return(c) ==
    /\ InLoop(c)
    /\ pc' = [pc EXCEPT ![c] = "idle"]
    /\ UNCHANGED <<transport, reqs_waiting_upload, h2_streams, settings_seen, calls, lookups,
                   sent, flushed>>
    /\ UNCHANGED tableVars

----------------------------------------------------------------------------
(* Specifications *)

Init ==
    /\ handlers = <<>>
    /\ default_handler = None
    /\ h2_handlers = "unset"
    /\ running = FALSE
    /\ resolved = <<>>
    /\ entry_log = <<>>
    /\ default_log = <<>>
    /\ transport = [c \in Conns |-> "none"]
    /\ pc = [c \in Conns |-> "idle"]
    /\ reqs_waiting_upload = [c \in Conns |-> [s \in {} |-> NoHeaders]]
    /\ h2_streams = [c \in Conns |-> [s \in Streams |-> IdleStream]]
    /\ settings_seen = [c \in Conns |-> 0]
    /\ calls = [c \in Conns |-> [s \in Streams |-> <<>>]]
    /\ lookups = [c \in Conns |-> [s \in Streams |-> <<>>]]
    /\ sent = [c \in Conns |-> <<>>]
    /\ flushed = [c \in Conns |-> 0]

\* The route table on its own: any registrations, any lookups
NextRoutes ==
    \/ \E cond \in Conds, h \in Handlers : register_handler(cond, h)
    \/ \E h \in DefaultHandlers : register_default_handler(h)
    \/ \E m \in Methods, p \in RoutePaths : Resolve(m, p)

SpecRoutes == Init /\ [][NextRoutes]_vars

\* The server: the shipped routes, then one connection and its streams
Next ==
    \/ register_api_handlers
    \/ register_static_handlers
    \/ run
    \/ connection_made("A")
    \/ connection_lost("A")
    \/ data_received("A")
    \/ \E s \in Streams, m \in Methods, p \in Paths : RequestReceived("A", s, m, p)
    \/ \E s \in Streams : DataReceived("A", s)
    \/ \E s \in Streams : StreamEnded("A", s)
    \/ data_received_return("A")

Spec == Init /\ [][Next]_vars

\* Two connections side by side, each with fewer kinds of request
ConnMethods == {"PUT", "GET"}
ConnPaths   == { <<"r", "o">> }

NextConns ==
    \/ register_api_handlers
    \/ register_static_handlers
    \/ run
    \/ \E c \in Conns : connection_made(c)
    \/ \E c \in Conns : connection_lost(c)
    \/ \E c \in Conns : data_received(c)
    \/ \E c \in Conns, s \in Streams, m \in ConnMethods, p \in ConnPaths :
           RequestReceived(c, s, m, p)
    \/ \E c \in Conns, s \in Streams : DataReceived(c, s)
    \/ \E c \in Conns : data_received_return(c)

SpecConns == Init /\ [][NextConns]_vars

\* One connection whose peer also changes its settings
NextSettings ==
    \/ register_api_handlers
    \/ register_static_handlers
    \/ run
    \/ connection_made("A")
    \/ data_received("A")
    \/ \E s \in Streams, m \in ConnMethods, p \in ConnPaths : RequestReceived("A", s, m, p)
    \/ \E s \in Streams : DataReceived("A", s)
    \/ RemoteSettingsChanged("A")
    \/ data_received_return("A")

SpecSettings == Init /\ [][NextSettings]_vars

\* send_empty applied to every status code, message and status_in_body
NextEmpty ==
    \/ register_api_handlers
    \/ run
    \/ connection_made("A")
    \/ \E s \in Streams, code \in StatusCodes, msg \in StatusMsgs, b \in BOOLEAN :
          call_send_empty("A", s, code, msg, b)

SpecEmpty == Init /\ [][NextEmpty]_vars

\* One connection under tables that put exact-path entries in front of the
\* shipped routes
NextQuery ==
    \/ register_handler(CondExact("PUT", API_ROOT_data), "H1")
    \/ register_api_handlers
    \/ register_static_handlers
    \/ run
    \/ connection_made("A")
    \/ data_received("A")
    \/ \E s \in Streams, m \in Methods, p \in Paths : RequestReceived("A", s, m, p)
    \/ \E s \in Streams : DataReceived("A", s)
    \/ data_received_return("A")

SpecQuery == Init /\ [][NextQuery]_vars

----------------------------------------------------------------------------
(* What a stream went through *)

Method(c, s) == h2_streams[c][s].headers[":method"]
Path(c, s)   == h2_streams[c][s].headers[":path"]

\* the part of a path before its first '?', the whole path if it has none
BeforeQuery(p) ==
    LET Q == { i \in 1..Len(p) : p[i] = "?" }
    IN IF Q = {} THEN p
       ELSE SubSeq(p, 1, (CHOOSE i \in Q : \A j \in Q : i <= j) - 1)

\* the handler the route table has for the request of stream s
Routed(c, s) == get_handler(Method(c, s), BeforeQuery(Path(c, s)))

\* the request of stream s has been given to the route table: at its header
\* event for GET and DELETE, at its first data event for PUT and POST
Dispatched(c, s) ==
    \/ h2_streams[c][s].st # "idle" /\ Method(c, s) \in {"GET", "DELETE"}
    \/ Method(c, s) \in {"PUT", "POST"} /\ h2_streams[c][s].ndata >= 1

\* the frames the session sent on stream s
Responses(c, s) == SelectSeq(sent[c], LAMBDA f : f.stream = s)

\* the bytes of all the data events of stream s, in arrival order
Body(c, s) == [k \in 1..h2_streams[c][s].ndata |-> <<c, s, k>>]

----------------------------------------------------------------------------
(* Properties of the route table, checked under SpecRoutes *)

\* the entries, in the order of the register_handler calls, whose condition
\* is true for (method, path)
LogMatching(method, path) ==
    { i \in 1..Len(entry_log) : CondHolds(entry_log[i][1], method, path) }

Earliest(S) == CHOOSE i \in S : \A j \in S : i <= j

LastDefault == IF default_log = <<>> THEN None ELSE default_log[Len(default_log)]

\* C1: get_handler returns the handler of the earliest-registered entry whose
\* condition is true for (method, path), whatever later entries match as well.
C1_FirstMatch ==
    resolved # <<>> =>
        LET r == resolved[1]
            M == LogMatching(r.method, r.path)
        IN M # {} => r.handler = entry_log[Earliest(M)][2]

\* a lookup that two entries with different handlers match, answered with the
\* handler of the first
C1_Witness ==
    /\ resolved # <<>>
    /\ LET r == resolved[1]
           M == LogMatching(r.method, r.path)
       IN /\ Cardinality(M) >= 2
          /\ \E i \in M : entry_log[i][2] # entry_log[Earliest(M)][2]
          /\ r.handler = entry_log[Earliest(M)][2]

\* C9: when no registered condition is true for (method, path), get_handler
\* returns the default handler if one was registered and none if none ever
\* was; when some condition is true the result is the handler of a matching
\* entry, so it is the default only if that entry carries the same handler.
C9_DefaultOnlyWhenUnmatched ==
    resolved # <<>> =>
        LET r == resolved[1]
            M == LogMatching(r.method, r.path)
            matched == { entry_log[i][2] : i \in M }
        IN /\ (M = {} /\ default_log = <<>>) => r.handler = None
           /\ (M = {} /\ default_log # <<>>) =>
                  (r.handler # None /\ r.handler = default_handler)
           /\ M # {} => r.handler \in matched
           /\ (M # {} /\ default_handler \notin matched) => r.handler # default_handler

\* an unmatched lookup on a table that has entries and a default, answered
\* with the default
C9_Witness ==
    /\ resolved # <<>>
    /\ entry_log # <<>>
    /\ default_log # <<>>
    /\ LogMatching(resolved[1].method, resolved[1].path) = {}
    /\ resolved[1].handler = default_handler

\* C10: after any interleaving of register_handler and
\* register_default_handler calls the fallback get_handler returns for an
\* unmatched (method, path) is the handler of the most recent
\* register_default_handler call; the list of entries is exactly the
\* register_handler calls in order, so register_default_handler never changed
\* it, and the default is what the last register_default_handler call set, so
\* register_handler never changed it.
C10_LastDefaultWins ==
    /\ handlers = entry_log
    /\ default_handler = LastDefault
    /\ resolved # <<>> =>
           (LogMatching(resolved[1].method, resolved[1].path) = {}
               => resolved[1].handler = LastDefault)

\* an unmatched lookup after two different defaults were registered with a
\* register_handler call after them
C10_Witness ==
    /\ resolved # <<>>
    /\ Len(default_log) >= 2
    /\ default_log[1] # default_log[Len(default_log)]
    /\ entry_log # <<>>
    /\ LogMatching(resolved[1].method, resolved[1].path) = {}
    /\ resolved[1].handler = default_log[Len(default_log)]

----------------------------------------------------------------------------
(* Properties of the session *)

\* C2: on a PUT or POST stream the handler is invoked at most once, never
\* before a data event of that stream was processed after its header event,
\* and so never if no data event arrives.
C2_UploadOnceAfterData ==
    \A c \in Conns, s \in Streams :
        Method(c, s) \in {"PUT", "POST"} =>
            /\ Len(calls[c][s]) <= 1
            /\ h2_streams[c][s].ndata = 0 => calls[c][s] = <<>>

\* one upload dispatched once although two data events arrived, beside one
\* whose stream ended without a data event and was not dispatched
C2_Witness ==
    /\ Method("A", 1) = "PUT" /\ h2_streams["A"][1].ndata = 2
    /\ Len(calls["A"][1]) = 1
    /\ Method("A", 3) = "POST" /\ h2_streams["A"][3].st = "closed"
    /\ h2_streams["A"][3].ndata = 0 /\ calls["A"][3] = <<>>

\* C3: a GET or DELETE request the route table has a handler for is
\* dispatched to it exactly once, in the step that processes its header
\* event, with (session, stream id, headers); no later data event on the
\* stream adds an invocation.
C3_ReadOnceAtHeaders ==
    \A c \in Conns, s \in Streams :
        (/\ h2_streams[c][s].st # "idle"
         /\ Method(c, s) \in {"GET", "DELETE"}
         /\ Routed(c, s) # None)
        => calls[c][s] = << [handler |-> Routed(c, s),
                             args |-> <<c, s, h2_streams[c][s].headers>>] >>

\* a DELETE dispatched once with data events and the end of the stream behind it
C3_Witness ==
    /\ Method("A", 1) = "DELETE" /\ Routed("A", 1) # None
    /\ h2_streams["A"][1].ndata = 2 /\ h2_streams["A"][1].st = "closed"
    /\ Len(calls["A"][1]) = 1

\* C4: a routable PUT or POST whose body arrived as k >= 1 data events has
\* its handler invoked exactly once, with the concatenation of the k
\* fragments.
C4_FullBody ==
    \A c \in Conns, s \in Streams :
        (/\ Method(c, s) \in {"PUT", "POST"}
         /\ h2_streams[c][s].st = "closed"
         /\ h2_streams[c][s].ndata >= 1
         /\ Routed(c, s) # None)
        => /\ Len(calls[c][s]) = 1
           /\ calls[c][s][1].args[4] = Body(c, s)

\* C5: a data event for a stream id that has no entry in the connection's
\* map invokes no handler, emits no response and leaves the map unchanged.
C5_OrphanedBodyIgnored ==
    [][ \A c \in Conns, s \in Streams :
           (DataReceived(c, s) /\ s \notin DOMAIN reqs_waiting_upload[c])
           => (calls' = calls /\ sent' = sent
               /\ reqs_waiting_upload' = reqs_waiting_upload) ]_vars

\* a second data event arrived on a PUT stream whose request was dispatched
\* at the first, while another request was waiting for its body
C5_Witness ==
    /\ Method("A", 1) = "PUT" /\ h2_streams["A"][1].ndata = 2
    /\ Len(calls["A"][1]) = 1
    /\ 3 \in DOMAIN reqs_waiting_upload["A"]

\* C6: the requests waiting for their body when their connection closes
\* never have a handler invoked nor a response sent: not in the step that
\* closes the connection and not in any later step, whatever other
\* connections do.
C6_ClosedPendingDropped ==
    [][ \A c \in Conns :
           transport'[c] = "closed" =>
               \A s \in DOMAIN reqs_waiting_upload[c] :
                   calls'[c][s] = <<>> /\ Responses(c, s)' = <<>> ]_vars

\* a connection closed with two requests waiting while the other connection
\* dispatched one
C6_Witness ==
    /\ transport["A"] = "closed"
    /\ DOMAIN reqs_waiting_upload["A"] = {1, 3}
    /\ transport["B"] = "open"
    /\ \E s \in Streams : calls["B"][s] # <<>>

\* C7: a request the route table has no handler for gets no handler
\* invocation and exactly one response on its stream: headers with :status
\* "400", then the body "400 Bad Request\n" with the stream ended; at the
\* header event for GET and DELETE, at the data event for PUT and POST.
C7_Unroutable400 ==
    \A c \in Conns, s \in Streams :
        (Dispatched(c, s) /\ Routed(c, s) = None) =>
            LET R == Responses(c, s)
            IN /\ calls[c][s] = <<>>
               /\ Len(R) = 2
               /\ R[1].type = "HEADERS"
               /\ R[1].headers[1] = <<":status", << "4", "0", "0" >> >>
               /\ R[2].type = "DATA"
               /\ R[2].data = << "4", "0", "0", " ", "B", "a", "d", " ",
                                 "R", "e", "q", "u", "e", "s", "t", "\n" >>
               /\ R[2].end_stream

\* an unroutable GET answered at its header event beside an unroutable PUT
\* answered at its data event
C7_Witness ==
    /\ Method("A", 1) = "GET" /\ Routed("A", 1) = None
    /\ h2_streams["A"][1].ndata = 0 /\ Len(Responses("A", 1)) = 2
    /\ Method("A", 3) = "PUT" /\ Routed("A", 3) = None
    /\ h2_streams["A"][3].ndata = 1 /\ Len(Responses("A", 3)) = 2

\* C8: the handler a request is dispatched to is the one get_handler has for
\* the part of its path before the first '?', for GET/DELETE and for
\* PUT/POST; two requests with the same method whose paths differ only
\* after the first '?' go to the same handler.
C8_QueryIgnored ==
    \A c \in Conns :
        /\ \A s \in Streams :
               Dispatched(c, s) =>
                   IF Routed(c, s) # None
                   THEN Len(calls[c][s]) = 1 /\ calls[c][s][1].handler = Routed(c, s)
                   ELSE calls[c][s] = <<>>
        /\ \A s, t \in Streams :
               (/\ Dispatched(c, s) /\ Dispatched(c, t)
                /\ Method(c, s) = Method(c, t)
                /\ BeforeQuery(Path(c, s)) = BeforeQuery(Path(c, t)))
               => [i \in DOMAIN calls[c][s] |-> calls[c][s][i].handler]
                  = [i \in DOMAIN calls[c][t] |-> calls[c][t][i].handler]

\* two PUT requests whose paths differ after the '?' dispatched to the entry
\* registered for the exact path before it
C8_Witness ==
    /\ Method("A", 1) = "PUT" /\ Method("A", 3) = "PUT"
    /\ Path("A", 1) # Path("A", 3)
    /\ BeforeQuery(Path("A", 1)) = BeforeQuery(Path("A", 3))
    /\ Len(calls["A"][1]) = 1 /\ Len(calls["A"][3]) = 1
    /\ calls["A"][1][1].handler = "H1" /\ calls["A"][3][1].handler = "H1"

\* the methods data_received dispatches or stores
KnownMethods == {"GET", "DELETE", "PUT", "POST"}

\* C11: a request whose method is none of GET, DELETE, PUT, POST invokes no
\* handler, emits no response, makes no route-table lookup and leaves the map
\* of pending requests as it was; its stream never has an entry in the map,
\* so every later data event on it finds none, and stays without handler
\* invocation and without response
C11_UnknownMethodIgnored ==
    [][\A c \in Conns, s \in Streams :
          /\ \A m \in Methods \ KnownMethods, p \in Paths :
                RequestReceived(c, s, m, p)
                    => /\ calls' = calls
                       /\ sent' = sent
                       /\ lookups' = lookups
                       /\ reqs_waiting_upload' = reqs_waiting_upload
          /\ (h2_streams'[c][s].st # "idle" /\ Method(c, s)' \notin KnownMethods)
                => /\ s \notin DOMAIN reqs_waiting_upload'[c]
                   /\ calls'[c][s] = <<>>
                   /\ lookups'[c][s] = <<>>
                   /\ Responses(c, s)' = <<>>]_vars

\* a PATCH request on stream 3 arrived while stream 1 was pending, and its two data events followed
C11_Witness ==
    /\ Method("A", 3) = "PATCH"
    /\ h2_streams["A"][3].ndata = 2
    /\ 1 \in DOMAIN reqs_waiting_upload["A"]
    /\ calls["A"][3] = <<>> /\ Responses("A", 3) = <<>>

\* C12: a stream whose method is GET, DELETE, PUT or POST does not stay
\* without an outcome: once the peer has ended the stream, so that every
\* event of the request has been delivered, a handler has been invoked for
\* it or an error response has been emitted on it; this includes a PUT or
\* POST request that carries no body
C12_EveryRequestAnswered ==
    \A c \in Conns, s \in Streams :
        (h2_streams[c][s].st = "closed" /\ Method(c, s) \in KnownMethods)
            => (calls[c][s] # <<>> \/ Responses(c, s) # <<>>)

\* C13: a pending request whose stream the peer ends before any data event,
\* on a connection that stays open, is discarded: it is no longer in the map
\* of pending requests, and no handler was invoked for it
C13_EndedPendingDiscarded ==
    \A c \in Conns, s \in Streams :
        ( /\ transport[c] = "open"
          /\ h2_streams[c][s].st = "closed"
          /\ h2_streams[c][s].ndata = 0
          /\ Method(c, s) \in {"PUT", "POST"} )
            => (s \notin DOMAIN reqs_waiting_upload[c] /\ calls[c][s] = <<>>)

\* the pending request of stream s in session c is the same before and after the step
PendingKept(c, s) ==
    /\ (s \in DOMAIN reqs_waiting_upload[c]) <=> (s \in DOMAIN reqs_waiting_upload'[c])
    /\ s \in DOMAIN reqs_waiting_upload[c]
          => reqs_waiting_upload'[c][s] = reqs_waiting_upload[c][s]

\* C14: however the header and data events of distinct streams interleave on
\* one connection, the handler invoked by a data event on stream s is called
\* with the session, the stream id s, exactly the headers received for s and
\* that event's data, and a stored entry of s holds the headers received for
\* s; a request or data event on another stream t neither adds, removes nor
\* alters the pending request of s
C14_StreamsIndependent ==
    [][\A c \in Conns, s \in Streams :
          /\ (Method(c, s)' \in {"PUT", "POST"} /\ calls'[c][s] # <<>>)
                => /\ Len(calls'[c][s]) = 1
                   /\ calls'[c][s][1].args =
                         <<c, s, h2_streams'[c][s].headers, Frag(c, s, 1)>>
          /\ s \in DOMAIN reqs_waiting_upload'[c]
                => reqs_waiting_upload'[c][s] = h2_streams'[c][s].headers
          /\ \A t \in Streams \ {s} :
                ( \/ \E m \in Methods, p \in Paths : RequestReceived(c, t, m, p)
                  \/ DataReceived(c, t) )
                    => PendingKept(c, s)]_vars

\* streams 1 and 3 carried different uploads; the data of 3 came first and was
\* dispatched with the headers of 3 while the request of 1 was still pending
C14_Witness ==
    /\ Method("A", 1) \in {"PUT", "POST"} /\ Method("A", 3) \in {"PUT", "POST"}
    /\ h2_streams["A"][1].headers # h2_streams["A"][3].headers
    /\ 1 \in DOMAIN reqs_waiting_upload["A"]
    /\ Len(calls["A"][3]) = 1
    /\ calls["A"][3][1].args = <<"A", 3, h2_streams["A"][3].headers, Frag("A", 3, 1)>>

\* C15: the map of pending requests belongs to one connection: the map of a
\* session changes only in a request or data event of that same session,
\* also when another session uses the same stream id; and a data event on a
\* session with no pending request for stream s is an orphaned body (no
\* handler, no lookup, no response, no map change) while the other session
\* holds a pending request for s
C15_MapPerConnection ==
    [][\A c \in Conns :
          /\ reqs_waiting_upload'[c] # reqs_waiting_upload[c]
                => \E s \in Streams :
                      \/ \E m \in ConnMethods, p \in ConnPaths : RequestReceived(c, s, m, p)
                      \/ DataReceived(c, s)
          /\ \A d \in Conns \ {c}, s \in Streams :
                ( /\ DataReceived(c, s)
                  /\ s \notin DOMAIN reqs_waiting_upload[c]
                  /\ s \in DOMAIN reqs_waiting_upload[d] )
                    => /\ reqs_waiting_upload' = reqs_waiting_upload
                       /\ calls' = calls /\ lookups' = lookups /\ sent' = sent]_vars

\* session A still holds the pending request of stream 1 after session B,
\* which has none for its own stream 1, received data on it
C15_Witness ==
    /\ 1 \in DOMAIN reqs_waiting_upload["A"]
    /\ 1 \notin DOMAIN reqs_waiting_upload["B"]
    /\ h2_streams["B"][1].ndata >= 1
    /\ Method("B", 1) = "GET"
    /\ Len(calls["B"][1]) = 1 /\ calls["A"][1] = <<>>

\* C16: a remote-settings-changed event acknowledges the settings (one
\* acknowledgement frame, on no request stream) and does nothing else: the
\* map of pending requests and the route table are unchanged, no handler is
\* invoked, no lookup is made and no response is emitted on any stream
C16_SettingsOnlyAcknowledged ==
    [][\A c \in Conns :
          RemoteSettingsChanged(c)
              => /\ reqs_waiting_upload' = reqs_waiting_upload
                 /\ handlers' = handlers /\ default_handler' = default_handler
                 /\ calls' = calls /\ lookups' = lookups
                 /\ sent'[c] = Append(sent[c], Frame("SETTINGS_ACK", 0, <<>>, <<>>, FALSE))
                 /\ \A s \in Streams : Responses(c, s)' = Responses(c, s)]_vars

\* the request of stream 1 was pending when the peer changed its settings
\* (the acknowledgement is queued behind the response to the later stream 3)
\* and it is still pending
C16_Witness ==
    /\ settings_seen["A"] = 1
    /\ 1 \in DOMAIN reqs_waiting_upload["A"]
    /\ \E i \in 1..Len(sent["A"]) :
          /\ sent["A"][i].type = "SETTINGS_ACK"
          /\ \E j \in 1..(i - 1) : sent["A"][j].stream = 3

\* C17: at every point of a session the map of pending requests has an
\* entry for stream s exactly when the request received on s had method PUT
\* or POST and no data event of s has been processed since; the entry is the
\* one request of that stream (its own headers, method PUT or POST), and a
\* stream for which a handler was invoked, a lookup made or a 400 emitted has
\* no entry
C17_PendingExactlyAwaitingBody ==
    \A c \in Conns, s \in Streams :
        /\ (s \in DOMAIN reqs_waiting_upload[c])
              <=> ( /\ h2_streams[c][s].st # "idle"
                    /\ Method(c, s) \in {"PUT", "POST"}
                    /\ h2_streams[c][s].ndata = 0 )
        /\ s \in DOMAIN reqs_waiting_upload[c]
              => /\ reqs_waiting_upload[c][s] = h2_streams[c][s].headers
                 /\ reqs_waiting_upload[c][s][":method"] \in {"PUT", "POST"}
        /\ (calls[c][s] # <<>> \/ lookups[c][s] # <<>> \/ Responses(c, s) # <<>>)
              => s \notin DOMAIN reqs_waiting_upload[c]

\* stream 1 is pending; stream 3, also an upload, has had its data events,
\* was dispatched at the first and has no entry any more
C17_Witness ==
    /\ 1 \in DOMAIN reqs_waiting_upload["A"]
    /\ Method("A", 3) \in {"PUT", "POST"}
    /\ h2_streams["A"][3].ndata = 2
    /\ 3 \notin DOMAIN reqs_waiting_upload["A"]
    /\ (calls["A"][3] # <<>> \/ Responses("A", 3) # <<>>)

\* C18: send_empty appends to what the connection sends, in this order, a
\* header block on the stream with :status equal to the code, content-type
\* text/plain, content-length and the server header, and then exactly one
\* data frame on the stream carrying end-of-stream; the body is the bytes of
\* code, space, message, newline when status_in_body is true and empty when
\* it is false; content-length is the byte length of the body sent, 0 when
\* status_in_body is false
C18_SendEmptyFrames ==
    [][\A c \in Conns, s \in Streams, code \in StatusCodes, msg \in StatusMsgs,
         b \in BOOLEAN :
          call_send_empty(c, s, code, msg, b)
              => LET n == Len(sent[c])
                     H == sent'[c][n + 1]
                     D == sent'[c][n + 2]
                 IN /\ Len(sent'[c]) = n + 2
                    /\ SubSeq(sent'[c], 1, n) = sent[c]
                    /\ H.type = "HEADERS" /\ H.stream = s /\ ~H.end_stream
                    /\ Len(H.headers) = 4
                    /\ H.headers[1] = <<":status", code>>
                    /\ H.headers[2] = <<"content-type", "text/plain">>
                    /\ H.headers[3][1] = "content-length"
                    /\ H.headers[4][1] = "server"
                    /\ D.type = "DATA" /\ D.stream = s /\ D.end_stream
                    /\ D.data = IF b THEN encode(code) \o << " " >> \o encode(msg) \o << "\n" >>
                                     ELSE <<>>
                    /\ H.headers[3][2] = Len(D.data)
                    /\ ~b => H.headers[3][2] = 0]_vars

\* one response without a body and one whose text has a character of two
\* bytes: 204, space, four characters, newline are ten bytes
C18_Witness ==
    /\ Len(sent["A"]) = 5
    /\ sent["A"][2].headers[3] = <<"content-length", 0>>
    /\ sent["A"][3].type = "DATA" /\ sent["A"][3].data = <<>> /\ sent["A"][3].end_stream
    /\ sent["A"][4].headers[1] = <<":status", << "2", "0", "4" >> >>
    /\ sent["A"][4].headers[3] = <<"content-length", 10>>
    /\ sent["A"][5].data = << "2", "0", "4", " ", "C", "a", "f", "0xC3", "0xA9", "\n" >>

\* C19: when an event makes the session emit a 400 response through
\* send_empty, the frames of that response have been written to the
\* transport by the time that data_received call returns: between two
\* data_received calls on an open connection no response frame is still
\* waiting in the connection's send buffer
C19_BadRequestWritten ==
    \A c \in Conns :
        (transport[c] = "open" /\ pc[c] = "idle")
            => \A i \in 1..Len(sent[c]) :
                  sent[c][i].type \in {"HEADERS", "DATA"} => i <= flushed[c]

\* the paths the shipped table is asked about: the root, the two prefixes,
\* paths under each of them, and paths under neither
ShippedPaths == RoutePaths \cup { <<"r", "o", "x">>, <<"r", "x">>, <<"x", "r", "d">> }

\* C20: with the routes of register_api_handlers followed by those of
\* register_static_handlers (data and operations prefixes not prefixes of one
\* another) get_handler never returns none: GET on exactly the API root gives
\* the root handler; GET, POST, PUT, DELETE on a path under the data prefix
\* give the data handler of that method; POST under the operations prefix
\* gives the operation handler; every other GET gives the static-file
\* handler and never the default; every other request gives the
\* unknown-request default. Every handler a session invoked is the one so
\* determined, and no session emitted its own 400 response
C20_ShippedTableTotal ==
    (Registered(ApiRoutes) /\ Registered(StaticRoutes))
        => /\ ~startswith(API_ROOT_data, API_ROOT_ops)
           /\ ~startswith(API_ROOT_ops, API_ROOT_data)
           /\ \A m \in Methods, p \in ShippedPaths :
                 LET h == get_handler(m, p)
                     data == startswith(p, API_ROOT_data)
                     ops == startswith(p, API_ROOT_ops)
                 IN /\ h # None
                    /\ (m = "GET" /\ p = API_ROOT) => h = "api_root_handler"
                    /\ data => /\ m = "GET" => h = "api_get"
                               /\ m = "POST" => h = "api_post"
                               /\ m = "PUT" => h = "api_put"
                               /\ m = "DELETE" => h = "api_delete"
                    /\ (m = "POST" /\ ops) => h = "api_op"
                    /\ (m = "GET" /\ p # API_ROOT /\ ~data) => h = "get_file"
                    /\ ( /\ m # "GET"
                         /\ ~(m \in KnownMethods /\ data)
                         /\ ~(m = "POST" /\ ops) )
                          => h = "unknown_req_handler"
           /\ \A c \in Conns, s \in Streams :
                 /\ Responses(c, s) = <<>>
                 /\ calls[c][s] # <<>>
                       => calls[c][s][1].handler =
                             get_handler(Method(c, s), BeforeQuery(Path(c, s)))

\* under the shipped table a GET outside the API went to the static-file
\* handler and a PUT under the operations prefix to the default handler
C20_Witness ==
    /\ Registered(ApiRoutes) /\ Registered(StaticRoutes)
    /\ Method("A", 1) = "GET" /\ Path("A", 1) = API_ROOT_ops
    /\ Len(calls["A"][1]) = 1 /\ calls["A"][1][1].handler = "get_file"
    /\ Method("A", 3) = "PUT" /\ Path("A", 3) = API_ROOT_ops
    /\ Len(calls["A"][3]) = 1 /\ calls["A"][3][1].handler = "unknown_req_handler"

====
